---- MODULE Spec2Model ----
(***************************************************************************)
(* Share-of-voice calculator (src/main.py): domain normalisation, record   *)
(* sanitising, position-to-traffic estimation over the fixed CTR curve and *)
(* the aggregation / ranking pipeline of process_file.                     *)
(*                                                                         *)
(* Representation.                                                         *)
(*  - A Python string is the sequence of its characters, each a one-       *)
(*    character string, so that the regular expressions and urlparse act   *)
(*    on characters.                                                       *)
(*  - A spreadsheet cell is a record [t, s, h]: t = "nan" (missing),       *)
(*    t = "str" (text s) or t = "num" (a number).  A number is held as h,  *)
(*    TWICE its value, so that the halves pandas keeps as floats (0.5,     *)
(*    10.5) exist next to the integers.                                    *)
(*  - A table is a sequence of row records; idx is the pandas index label  *)
(*    of the row (the position of the row in the uploaded sheet).          *)
(***************************************************************************)
EXTENDS Integers, Sequences, FiniteSets, TLC

VARIABLES
    pc,                          \* "process_file" | "done" | "raised" (process_file raised),
                                 \* "estimate_traffic" | "estimated"
    uploaded_file,               \* the table pd.read_excel returns
    designated_domains,          \* the caller's list of designated domains
    df,                          \* the sanitised table with its Estimated Traffic column
    domain_traffic,              \* full ranked domain list (4th output)
    top_domains,                 \* top-20 table (1st output)
    designated_domains_traffic,  \* designated subset (2nd output)
    top_pages,                   \* top pages table (3rd output)
    position,                    \* estimate_traffic's first argument
    search_volume,               \* estimate_traffic's second argument
    estimate                     \* what estimate_traffic returned

vars == <<pc, uploaded_file, designated_domains, df, domain_traffic, top_domains,
          designated_domains_traffic, top_pages, position, search_volume, estimate>>

---------------------------------------------------------------------------
(* Bounds of the model *)

\* longest hand-picked table
MaxRows == 2
\* most rows of a generated table (one distinct domain each, or pages of two domains)
MaxGenerated == 22
\* estimate_traffic is tried on the volumes 1..MaxSmallVolume ...
MaxSmallVolume == 3
\* ... and on the hundreds 100, 200, .. 100 * MaxVolumeHundreds
MaxVolumeHundreds == 10

---------------------------------------------------------------------------
(* Strings and cells *)

\* the characters of the model in code point order (Python compares str by code point)
Alphabet ==
    <<"#", "-", ".", "/", "0", "1", "2", "3", "4", "5", "6", "7", "8", "9", ":", "?",
      "A", "B", "C", "D", "E", "F", "G", "H", "I", "J", "K", "L", "M", "N", "O", "P",
      "Q", "R", "S", "T", "U", "V", "W", "X", "Y", "Z", "a", "b", "c", "d", "e", "f",
      "g", "h", "i", "j", "k", "l", "m", "n", "o", "p", "q", "r", "s", "t", "u", "v",
      "w", "x", "y", "z">>

Chars == {Alphabet[i] : i \in DOMAIN Alphabet}

CodePoint == [c \in Chars |-> CHOOSE i \in DOMAIN Alphabet : Alphabet[i] = c]

Digits == <<"0", "1", "2", "3", "4", "5", "6", "7", "8", "9">>

\* str < str
RECURSIVE StrLess(_, _)
StrLess(a, b) ==
    IF b = <<>> THEN FALSE
    ELSE IF a = <<>> THEN TRUE
    ELSE IF Head(a) = Head(b) THEN StrLess(Tail(a), Tail(b))
    ELSE CodePoint[Head(a)] < CodePoint[Head(b)]

StartsWith(s, prefix) ==
    /\ Len(s) >= Len(prefix)
    /\ SubSeq(s, 1, Len(prefix)) = prefix

Drop(s, n) == SubSeq(s, n + 1, Len(s))

NaN == [t |-> "nan", s |-> <<>>, h |-> 0]
Str(s) == [t |-> "str", s |-> s, h |-> 0]
\* the number n
Number(n) == [t |-> "num", s |-> <<>>, h |-> 2 * n]
\* the number n + 0.5
NumberAndHalf(n) == [t |-> "num", s |-> <<>>, h |-> 2 * n + 1]

isna(cell) == cell.t = "nan"

\* int(x) of a non-negative number: truncation
int(cell) == cell.h \div 2

s_http == <<"h", "t", "t", "p", ":", "/", "/">>
s_https == <<"h", "t", "t", "p", "s", ":", "/", "/">>
s_www == <<"w", "w", "w", ".">>
s_Unknown == <<"U", "n", "k", "n", "o", "w", "n">>
s_dash == <<"-">>
s_NA == <<"N", "/", "A">>

---------------------------------------------------------------------------
(* ctr_curve, normalize_domain, estimate_traffic *)

\* the CTR percentages times 100: 44.97 is 4497
ctr_curve ==
    <<4497, 1362, 865, 496, 305, 261, 238, 247, 255, 192,
      231, 235, 242, 258, 251, 212, 199, 190, 176, 130>>

\* re.sub(r'^https?://', '', domain)
strip_protocol(domain) ==
    IF StartsWith(domain, s_http) THEN Drop(domain, Len(s_http))
    ELSE IF StartsWith(domain, s_https) THEN Drop(domain, Len(s_https))
    ELSE domain

\* urlparse('//' + domain).netloc: what follows the // up to the first of / ? #
RECURSIVE netloc(_)
netloc(rest) ==
    IF rest = <<>> \/ Head(rest) \in {"/", "?", "#"} THEN <<>>
    ELSE <<Head(rest)>> \o netloc(Tail(rest))

\* re.sub(r'^www\.', '', domain)
strip_www(domain) ==
    IF StartsWith(domain, s_www) THEN Drop(domain, Len(s_www)) ELSE domain

\* normalize_domain that leaves a leading www. in place
normalize_domain_keep_www(domain) == netloc(strip_protocol(domain))

normalize_domain(domain) == strip_www(netloc(strip_protocol(domain)))

\* The sign of ((ctr_curve[p] / 100) * v computed in doubles) minus the exact
\* product, where the exact product ends in .5 (everywhere else the double is far
\* from a half and round() returns the nearest integer).  Computed with CPython
\* for the volumes up to 3000.
float_error(p, v) ==
    IF <<p, v>> \in {<<3, 1000>>, <<20, 500>>} THEN 1
    ELSE IF <<p, v>> \in {<<2, 2500>>, <<7, 2500>>} THEN -1
    ELSE 0

\* round(x) of the double x = n / 10000 + error: Python rounds a half to even
python_round_floor(n, err) == n \div 10000

python_round(n, err) ==
    LET q == n \div 10000
        r == n % 10000
    IN  IF 2 * r < 10000 THEN q
        ELSE IF 2 * r > 10000 THEN q + 1
        ELSE IF err < 0 THEN q
        ELSE IF err > 0 THEN q + 1
        ELSE IF q % 2 = 0 THEN q ELSE q + 1

\* estimate_traffic without the pd.isna guard: int(nan) raises ValueError
estimate_traffic_unguarded(pos, volume) ==
    IF isna(pos) \/ isna(volume) THEN [raised |-> TRUE, value |-> 0]
    ELSE IF int(pos) \in DOMAIN ctr_curve
         THEN [raised |-> FALSE,
               value |-> python_round(ctr_curve[int(pos)] * int(volume),
                                      float_error(int(pos), int(volume)))]
         ELSE [raised |-> FALSE, value |-> 0]

estimate_traffic(pos, volume) ==
    IF isna(pos) \/ isna(volume) THEN [raised |-> FALSE, value |-> 0]
    ELSE LET p == int(pos)
             v == int(volume)
         IN  IF p \in DOMAIN ctr_curve
             THEN [raised |-> FALSE,
                   value |-> python_round(ctr_curve[p] * v, float_error(p, v))]
             ELSE [raised |-> FALSE, value |-> 0]

---------------------------------------------------------------------------
(* Tables *)

\* the rows of a sequence selected by a set of positions, in order
RECURSIVE Filter(_, _)
Filter(table, keep) ==
    IF table = <<>> THEN <<>>
    ELSE LET n == Len(table)
             front == Filter(SubSeq(table, 1, n - 1), keep)
         IN  IF n \in keep THEN Append(front, table[n]) ELSE front

RECURSIVE Sum(_)
Sum(numbers) == IF numbers = <<>> THEN 0 ELSE Head(numbers) + Sum(Tail(numbers))

\* a stable sort: a row moves behind the rows that go before it and behind the
\* earlier rows it ties with (np.lexsort, which sort_values uses for several keys)
\* before holds the pairs <<i, j>> of positions where row i sorts before row j
stable_sort(table, before) ==
    LET n == Len(table)
        place == [i \in 1..n |-> 1 + Cardinality({j \in 1..n :
                         \/ <<j, i>> \in before
                         \/ (<<i, j>> \notin before /\ j < i)})]
    IN  [k \in 1..n |-> table[CHOOSE i \in 1..n : place[i] = k]]

\* the distinct keys of a groupby, sorted (groupby's sort=True)
\* less holds the pairs <<x, y>> of keys with x < y
sorted_keys(keys, less) ==
    LET place == [x \in keys |-> 1 + Cardinality({y \in keys : <<y, x>> \in less})]
    IN  [k \in 1..Cardinality(keys) |-> CHOOSE x \in keys : place[x] = k]

\* pd.read_excel: the sheet's rows under a RangeIndex 0, 1, ..
read_excel(sheet) ==
    [i \in 1..Len(sheet) |->
        [idx |-> i - 1,
         Keywords |-> sheet[i].Keywords,
         Keyword_Ranking |-> sheet[i].Keyword_Ranking,
         Search_Volume |-> sheet[i].Search_Volume,
         Ranked_Domain_Name |-> sheet[i].Ranked_Domain_Name,
         Ranked_Page_URL |-> sheet[i].Ranked_Page_URL]]

---------------------------------------------------------------------------
(* clean_data *)

\* df.replace(['-', 'N/A', ''], np.nan), on one cell
replace_missing(cell) ==
    IF cell.t = "str" /\ cell.s \in {s_dash, s_NA, <<>>} THEN NaN ELSE cell

RECURSIVE digits_value(_)
digits_value(s) ==
    IF s = <<>> THEN 0
    ELSE 10 * digits_value(SubSeq(s, 1, Len(s) - 1))
         + (CHOOSE d \in 0..9 : Digits[d + 1] = s[Len(s)])

\* pd.to_numeric(errors='coerce'), on one cell: a number stays, a text of digits
\* is parsed, any other text of the model's alphabet becomes NaN
to_numeric(cell) ==
    IF cell.t = "str"
    THEN IF cell.s # <<>> /\ \A i \in DOMAIN cell.s : cell.s[i] \in {"0", "1", "2", "3", "4", "5", "6", "7", "8", "9"}
         THEN Number(digits_value(cell.s))
         ELSE NaN
    ELSE cell

\* the row filter of clean_data; a comparison with NaN is False
valid(row) ==
    /\ ~isna(row.Keyword_Ranking) /\ ~isna(row.Search_Volume)
    /\ row.Keyword_Ranking.h >= Number(1).h
    /\ row.Keyword_Ranking.h <= Number(100).h
    /\ row.Search_Volume.h > Number(0).h

fillna(cell, value) == IF isna(cell) THEN Str(value) ELSE cell

clean_data(table) ==
    LET replaced == [i \in DOMAIN table |->
            [idx |-> table[i].idx,
             Keywords |-> replace_missing(table[i].Keywords),
             Keyword_Ranking |-> replace_missing(table[i].Keyword_Ranking),
             Search_Volume |-> replace_missing(table[i].Search_Volume),
             Ranked_Domain_Name |-> replace_missing(table[i].Ranked_Domain_Name),
             Ranked_Page_URL |-> replace_missing(table[i].Ranked_Page_URL)]]
        \* dropna(subset=required_columns, how='all')
        dropped == Filter(replaced, {i \in DOMAIN replaced :
            ~ /\ isna(replaced[i].Keywords)
              /\ isna(replaced[i].Keyword_Ranking)
              /\ isna(replaced[i].Search_Volume)
              /\ isna(replaced[i].Ranked_Domain_Name)
              /\ isna(replaced[i].Ranked_Page_URL)})
        numeric == [i \in DOMAIN dropped |->
            [dropped[i] EXCEPT !.Keyword_Ranking = to_numeric(@),
                               !.Search_Volume = to_numeric(@)]]
        filtered == Filter(numeric, {i \in DOMAIN numeric : valid(numeric[i])})
    IN  [i \in DOMAIN filtered |->
            [idx |-> filtered[i].idx,
             Keywords |-> filtered[i].Keywords,
             Keyword_Ranking |-> filtered[i].Keyword_Ranking,
             Search_Volume |-> filtered[i].Search_Volume,
             Ranked_Domain_Name |->
                 normalize_domain(fillna(filtered[i].Ranked_Domain_Name, s_Unknown).s),
             Ranked_Page_URL |-> fillna(filtered[i].Ranked_Page_URL, <<>>).s]]

---------------------------------------------------------------------------
(* process_file *)

\* [normalize_domain(domain) for domain in designated_domains]
normalize_designated(domains) ==
    [i \in DOMAIN domains |-> normalize_domain(domains[i])]

\* df.apply(lambda row: estimate_traffic(...), axis=1) followed by the assignment
\* to df['Estimated Traffic'] raises when a call raises; on a table without rows
\* apply calls the function once on a row of NaN to learn what it returns, and
\* when that call raises it hands back the empty five-column frame, which cannot
\* be assigned to one column (ValueError)
apply_raises(clean) ==
    IF clean = <<>> THEN estimate_traffic(NaN, NaN).raised
    ELSE \E i \in DOMAIN clean :
            estimate_traffic(clean[i].Keyword_Ranking, clean[i].Search_Volume).raised

with_estimated_traffic(clean) ==
    [i \in DOMAIN clean |->
        [idx |-> clean[i].idx,
         Keywords |-> clean[i].Keywords,
         Keyword_Ranking |-> clean[i].Keyword_Ranking,
         Search_Volume |-> clean[i].Search_Volume,
         Ranked_Domain_Name |-> clean[i].Ranked_Domain_Name,
         Ranked_Page_URL |-> clean[i].Ranked_Page_URL,
         Estimated_Traffic |->
             estimate_traffic(clean[i].Keyword_Ranking, clean[i].Search_Volume).value]]

\* the sums of one group of rows
sum_traffic(rows) == Sum([i \in DOMAIN rows |-> rows[i].Estimated_Traffic])
sum_volume(rows) ==
    [t |-> "num", s |-> <<>>, h |-> Sum([i \in DOMAIN rows |-> rows[i].Search_Volume.h])]

\* groupby('Ranked Domain Name') that forgets the rows after the first of a group
group_by_domain_first(frame) ==
    LET names == {frame[i].Ranked_Domain_Name : i \in DOMAIN frame}
        keys == sorted_keys(names, {pair \in names \X names : StrLess(pair[1], pair[2])})
        first(k) == frame[CHOOSE i \in DOMAIN frame :
                        /\ frame[i].Ranked_Domain_Name = keys[k]
                        /\ \A j \in 1..(i - 1) : frame[j].Ranked_Domain_Name # keys[k]]
    IN  [k \in DOMAIN keys |->
            [Domain |-> keys[k],
             Total_Estimated_Traffic |-> first(k).Estimated_Traffic,
             Total_Search_Volume |-> first(k).Search_Volume]]

\* df.groupby('Ranked Domain Name').agg(sum, sum).reset_index(), columns renamed
group_by_domain(frame) ==
    LET names == {frame[i].Ranked_Domain_Name : i \in DOMAIN frame}
        keys == sorted_keys(names, {pair \in names \X names : StrLess(pair[1], pair[2])})
        group(k) == Filter(frame, {i \in DOMAIN frame : frame[i].Ranked_Domain_Name = keys[k]})
    IN  [k \in DOMAIN keys |->
            [Domain |-> keys[k],
             Total_Estimated_Traffic |-> sum_traffic(group(k)),
             Total_Search_Volume |-> sum_volume(group(k))]]

\* the order of sort_values(by=[traffic, volume], ascending=[False, False])
domain_before(a, b) ==
    \/ a.Total_Estimated_Traffic > b.Total_Estimated_Traffic
    \/ /\ a.Total_Estimated_Traffic = b.Total_Estimated_Traffic
       /\ a.Total_Search_Volume.h > b.Total_Search_Volume.h

sort_domains(groups) ==
    stable_sort(groups, {pair \in (DOMAIN groups) \X (DOMAIN groups) :
                            domain_before(groups[pair[1]], groups[pair[2]])})

\* Rank taken from the traffic: domains of equal traffic share a rank
add_rank_shared(sorted) ==
    [i \in DOMAIN sorted |->
        [Domain |-> sorted[i].Domain,
         Total_Estimated_Traffic |-> sorted[i].Total_Estimated_Traffic,
         Total_Search_Volume |-> sorted[i].Total_Search_Volume,
         Rank |-> 1 + Cardinality({j \in DOMAIN sorted :
                     sorted[j].Total_Estimated_Traffic > sorted[i].Total_Estimated_Traffic})]]

\* reset_index(drop=True); domain_traffic['Rank'] = domain_traffic.index + 1
add_rank(sorted) ==
    [i \in DOMAIN sorted |->
        [Domain |-> sorted[i].Domain,
         Total_Estimated_Traffic |-> sorted[i].Total_Estimated_Traffic,
         Total_Search_Volume |-> sorted[i].Total_Search_Volume,
         Rank |-> i]]

\* the number of rows of the top table, domain_traffic.head(20)
TopDomains == 20

head(table) == SubSeq(table, 1, IF Len(table) < TopDomains THEN Len(table) ELSE TopDomains)

\* astype({'Rank': 'int', 'Total Estimated Traffic': 'int', 'Total Search Volume': 'int'})
astype_int(table) ==
    [i \in DOMAIN table |->
        [table[i] EXCEPT !.Total_Search_Volume = Number(int(@))]]

\* domain_traffic[domain_traffic['Domain'].isin(designated_domains)]
select_designated(ranked, designated) ==
    Filter(ranked, {i \in DOMAIN ranked :
        \E d \in DOMAIN designated : designated[d] = ranked[i].Domain})

\* df[df['Ranked Domain Name'].isin(top_domains['Domain']) & (df['Ranked Page URL'] != '')]
page_rows(frame, top) ==
    Filter(frame, {i \in DOMAIN frame :
        /\ \E k \in DOMAIN top : top[k].Domain = frame[i].Ranked_Domain_Name
        /\ frame[i].Ranked_Page_URL # <<>>})

page_key_less(a, b) ==
    \/ StrLess(a[1], b[1])
    \/ a[1] = b[1] /\ StrLess(a[2], b[2])

\* groupby(['Ranked Domain Name', 'Ranked Page URL']).agg(sum, sum).reset_index()
group_by_page(rows) ==
    LET pairs == {<<rows[i].Ranked_Domain_Name, rows[i].Ranked_Page_URL>> : i \in DOMAIN rows}
        keys == sorted_keys(pairs, {pair \in pairs \X pairs : page_key_less(pair[1], pair[2])})
        group(k) == Filter(rows, {i \in DOMAIN rows :
                        <<rows[i].Ranked_Domain_Name, rows[i].Ranked_Page_URL>> = keys[k]})
    IN  [k \in DOMAIN keys |->
            [Domain |-> keys[k][1],
             Page_URL |-> keys[k][2],
             Total_Search_Volume |-> sum_volume(group(k)),
             Total_Estimated_Traffic |-> sum_traffic(group(k))]]

\* sort_values(by=[domain, traffic], ascending=[True, True])
sort_pages_ascending(pages) ==
    stable_sort(pages, {pair \in (DOMAIN pages) \X (DOMAIN pages) :
        LET a == pages[pair[1]]
            b == pages[pair[2]]
        IN  \/ StrLess(a.Domain, b.Domain)
            \/ a.Domain = b.Domain /\ a.Total_Estimated_Traffic < b.Total_Estimated_Traffic})

\* sort_values(by=['Ranked Domain Name', 'Estimated Traffic'], ascending=[True, False])
sort_pages(pages) ==
    stable_sort(pages, {pair \in (DOMAIN pages) \X (DOMAIN pages) :
        LET a == pages[pair[1]]
            b == pages[pair[2]]
        IN  \/ StrLess(a.Domain, b.Domain)
            \/ a.Domain = b.Domain /\ a.Total_Estimated_Traffic > b.Total_Estimated_Traffic})

\* the number of pages kept for a domain, groupby(...).head(3)
TopPages == 3

\* groupby('Ranked Domain Name').head(3).reset_index(drop=True)
head_per_domain(pages) ==
    Filter(pages, {i \in DOMAIN pages :
        Cardinality({j \in 1..(i - 1) : pages[j].Domain = pages[i].Domain}) < TopPages})

---------------------------------------------------------------------------
(* The inputs the model draws *)

s_example_com == <<"e", "x", "a", "m", "p", "l", "e", ".", "c", "o", "m">>
s_www_example_com == <<"w", "w", "w", ".", "e", "x", "a", "m", "p", "l", "e", ".", "c", "o", "m">>
s_https_www_example_com_page ==
    <<"h", "t", "t", "p", "s", ":", "/", "/", "w", "w", "w", ".",
      "e", "x", "a", "m", "p", "l", "e", ".", "c", "o", "m", "/", "p", "a", "g", "e">>
s_http_example_com ==
    <<"h", "t", "t", "p", ":", "/", "/", "e", "x", "a", "m", "p", "l", "e", ".", "c", "o", "m">>
s_Example_com == <<"E", "x", "a", "m", "p", "l", "e", ".", "c", "o", "m">>
s_other_org == <<"o", "t", "h", "e", "r", ".", "o", "r", "g">>
s_a == <<"/", "a">>
s_b == <<"/", "b">>
s_c == <<"/", "c">>
s_kw1 == <<"k", "w", "1">>
s_kw2 == <<"k", "w", "2">>
s_abc == <<"a", "b", "c">>
s_7 == <<"7">>

Row(keyword, ranking, volume, domain, page) ==
    [Keywords |-> keyword, Keyword_Ranking |-> ranking, Search_Volume |-> volume,
     Ranked_Domain_Name |-> domain, Ranked_Page_URL |-> page]

\* the two rows of the spec's scenario
RowA == Row(Str(s_kw1), Number(1), Number(1000), Str(s_example_com), Str(s_a))
RowB == Row(Str(s_kw2), Number(2), Number(800), Str(s_www_example_com), Str(s_b))

\* rows of a sheet: the scenario's, other spellings of the domain, rankings and
\* volumes at and beyond the limits of the filter, text and missing cells, halves
SheetRows ==
    { RowA, RowB,
      Row(Str(s_kw1), Number(3), Number(500), Str(s_https_www_example_com_page), Str(s_a)),
      Row(Str(s_kw2), Str(s_7), Number(200), Str(s_Example_com), Str(s_c)),
      Row(Str(s_kw1), Number(0), Number(1000), Str(s_example_com), Str(s_a)),
      Row(Str(s_kw2), Number(101), Number(1000), Str(s_other_org), Str(s_b)),
      Row(Str(s_kw1), Number(1), Number(0), Str(s_other_org), Str(s_a)),
      Row(Str(s_kw2), Str(s_abc), Number(1000), Str(s_example_com), Str(s_a)),
      Row(Str(s_kw1), Number(1), Str(s_NA), Str(s_other_org), Str(s_a)),
      Row(Str(s_kw2), Number(1), NumberAndHalf(0), Str(s_other_org), Str(s_c)),
      Row(Str(s_kw1), NumberAndHalf(1), NumberAndHalf(10), Str(s_http_example_com), Str(<<>>)),
      Row(NaN, NaN, NaN, NaN, NaN),
      Row(Str(s_kw1), Number(21), Number(300), NaN, NaN),
      Row(Str(s_kw2), Number(100), Number(300), Str(s_dash), Str(s_b)) }

\* the sheets of at most n rows of SheetRows
RECURSIVE Sheets(_)
Sheets(n) ==
    IF n = 0 THEN {<<>>}
    ELSE LET shorter == Sheets(n - 1)
         IN  shorter \cup {Append(sheet, row) : sheet \in shorter, row \in SheetRows}

\* "d07", the domain of the 7th generated row
generated_domain(i) == <<"d", Digits[((i \div 10) % 10) + 1], Digits[(i % 10) + 1]>>
generated_page(i) == <<"/", "p", Digits[(i % 10) + 1]>>

\* a generated row: rankings run over 1..23, volumes over 100 and 200; kind
\* "domains" gives every row a domain of its own (every third one written with
\* www.), kind "pages" spreads the rows over seven pages of two domains
GeneratedRow(kind, i) ==
    Row(Str(s_kw1),
        Number(((i * 7) % 23) + 1),
        Number(100 * (1 + (i % 2))),
        Str(IF kind = "pages" THEN generated_domain(i % 2)
            ELSE IF i % 3 = 0 THEN s_www \o generated_domain(i)
            ELSE generated_domain(i)),
        Str(IF kind = "pages" THEN generated_page((i * 3) % 7) ELSE generated_page(i % 5)))

GeneratedSheet(kind, n) == [i \in 1..n |-> GeneratedRow(kind, i)]

DesignatedLists ==
    { <<>>, <<s_Example_com>>, <<s_example_com>>,
      <<s_https_www_example_com_page, s_other_org>> }

\* what may follow the generated rows of a sheet
GeneratedExtras ==
    { <<>>, <<RowA>>,
      <<Row(Str(s_kw1), NumberAndHalf(1), NumberAndHalf(10), Str(s_http_example_com), Str(s_c))>> }

\* the designated lists tried with n generated rows: none, the first or the last
\* generated domain written as a URL, every fourth generated domain
GeneratedDesignated(n) ==
    { <<>>, <<s_http \o s_www \o generated_domain(1)>>, <<s_https \o generated_domain(n) \o s_a>>,
      [k \in 1..(n \div 4) |-> generated_domain(4 * k)] }

NoEstimate == [raised |-> FALSE, value |-> 0]

---------------------------------------------------------------------------
(* The state machine *)

\* an uploaded sheet of hand-picked rows and a designated list
InitSheet ==
    /\ pc = "process_file"
    /\ uploaded_file \in Sheets(MaxRows)
    /\ designated_domains \in DesignatedLists
    /\ position = NaN /\ search_volume = NaN

\* a generated sheet, optionally one more row, and a designated list
InitGenerated ==
    /\ pc = "process_file"
    /\ \E kind \in {"domains", "pages"}, n \in 1..MaxGenerated :
          /\ \E extra \in GeneratedExtras : uploaded_file = GeneratedSheet(kind, n) \o extra
          /\ designated_domains \in GeneratedDesignated(n)
    /\ position = NaN /\ search_volume = NaN

\* a call of estimate_traffic alone
InitEstimate ==
    /\ pc = "estimate_traffic"
    /\ uploaded_file = <<>> /\ designated_domains = <<>>
    /\ position \in {Number(p) : p \in 0..101} \cup {NaN}
    /\ search_volume \in {Number(v) : v \in 1..MaxSmallVolume}
                         \cup {Number(100 * k) : k \in 1..MaxVolumeHundreds} \cup {NaN}

Init ==
    /\ InitSheet \/ InitGenerated \/ InitEstimate
    /\ df = <<>> /\ domain_traffic = <<>> /\ top_domains = <<>>
    /\ designated_domains_traffic = <<>> /\ top_pages = <<>>
    /\ estimate = NoEstimate

\* process_file(uploaded_file, designated_domains), as the script calls it
ProcessFile ==
    /\ pc = "process_file"
    /\ LET clean == clean_data(read_excel(uploaded_file))
           designated == normalize_designated(designated_domains)
           frame == with_estimated_traffic(clean)
           ranked == add_rank(sort_domains(group_by_domain(frame)))
           top == head(ranked)
           chosen == select_designated(ranked, designated)
       IN  IF apply_raises(clean)
           THEN /\ pc' = "raised"
                /\ UNCHANGED <<df, domain_traffic, top_domains,
                               designated_domains_traffic, top_pages>>
           ELSE /\ pc' = "done"
                /\ df' = frame
                /\ domain_traffic' = ranked
                /\ top_domains' = astype_int(top)
                /\ designated_domains_traffic' =
                       IF chosen # <<>> THEN astype_int(chosen) ELSE chosen
                /\ top_pages' =
                       astype_int(head_per_domain(sort_pages(
                           group_by_page(page_rows(frame, top)))))
    /\ UNCHANGED <<uploaded_file, designated_domains, position, search_volume, estimate>>

\* estimate_traffic(position, search_volume)
EstimateTraffic ==
    /\ pc = "estimate_traffic"
    /\ estimate' = estimate_traffic(position, search_volume)
    /\ pc' = "estimated"
    /\ UNCHANGED <<uploaded_file, designated_domains, df, domain_traffic, top_domains,
                   designated_domains_traffic, top_pages, position, search_volume>>

Next == ProcessFile \/ EstimateTraffic

Spec == Init /\ [][Next]_vars

---------------------------------------------------------------------------
(* The claims *)

Domains(table) == {table[i].Domain : i \in DOMAIN table}

\* C1: for a rank position p in 1..20 and an integer volume V >= 1 estimate_traffic
\* returns round(ctr_curve[p] / 100 * V), an integer nearest to the exact product
\* (at most one half away from it), and for p in 21..100 it returns 0.
C1_EstimateIsRoundedShare ==
    (pc = "estimated" /\ ~isna(position) /\ ~isna(search_volume)) =>
        LET p == position.h \div 2
            V == search_volume.h \div 2
            off == 10000 * estimate.value - ctr_curve[p] * V
        IN  /\ ~estimate.raised
            /\ p \in 1..20 => (off >= -5000 /\ off <= 5000)
            /\ p \in 21..100 => estimate.value = 0

\* position 20 with volume 500: 1.3 % of 500 is 6.5, which the doubles round up
C1_Witness ==
    /\ pc = "estimated"
    /\ position = Number(20) /\ search_volume = Number(500)
    /\ estimate.value = 7

\* C2: the totals of the full ranked domain list add up to the per-row totals of
\* the sanitised table, for the estimated traffic and for the search volume: the
\* grouping by domain loses no row and counts none twice.
C2_TotalsAreConserved ==
    pc = "done" =>
        /\ Sum([i \in DOMAIN domain_traffic |-> domain_traffic[i].Total_Estimated_Traffic])
             = Sum([i \in DOMAIN df |-> df[i].Estimated_Traffic])
        /\ Sum([i \in DOMAIN domain_traffic |-> domain_traffic[i].Total_Search_Volume.h])
             = Sum([i \in DOMAIN df |-> df[i].Search_Volume.h])

\* several domains, one of them with several rows of non-zero traffic
C2_Witness ==
    /\ pc = "done"
    /\ Len(domain_traffic) >= 2
    /\ \E i, j \in DOMAIN df :
          /\ i # j
          /\ df[i].Ranked_Domain_Name = df[j].Ranked_Domain_Name
          /\ df[i].Estimated_Traffic > 0 /\ df[j].Estimated_Traffic > 0

\* C3: every row that contributes to an output (every row of the sanitised table:
\* each is summed into the row of its domain) has 1 <= rank_position <= 100 and
\* search_volume >= 1.
C3_ContributingRowsAreValid ==
    pc = "done" =>
        \A i \in DOMAIN df :
            /\ df[i].Keyword_Ranking.t = "num" /\ df[i].Search_Volume.t = "num"
            /\ df[i].Keyword_Ranking.h >= Number(1).h
            /\ df[i].Keyword_Ranking.h <= Number(100).h
            /\ df[i].Search_Volume.h >= Number(1).h
            /\ \E k \in DOMAIN domain_traffic :
                  domain_traffic[k].Domain = df[i].Ranked_Domain_Name

\* C4: the top-20 table is the first min(20, number of domains) rows of the full
\* ranked domain list, in the same order, non-increasing in (traffic, volume).
C4_TopIsPrefixOfFullList ==
    pc = "done" =>
        /\ top_domains = SubSeq(domain_traffic, 1,
                            IF Len(domain_traffic) < 20 THEN Len(domain_traffic) ELSE 20)
        /\ \A i, j \in DOMAIN top_domains :
              i < j =>
                \/ top_domains[i].Total_Estimated_Traffic > top_domains[j].Total_Estimated_Traffic
                \/ /\ top_domains[i].Total_Estimated_Traffic = top_domains[j].Total_Estimated_Traffic
                   /\ top_domains[i].Total_Search_Volume.h >= top_domains[j].Total_Search_Volume.h

\* the estimated traffic of the rows of df of one domain and page
PageTraffic(domain, page) ==
    Sum([i \in DOMAIN df |->
            IF df[i].Ranked_Domain_Name = domain /\ df[i].Ranked_Page_URL = page
            THEN df[i].Estimated_Traffic ELSE 0])

\* C5: every row of the top-pages table has a domain of the top-20 table and a
\* non-empty page URL; a domain has at most 3 rows, in non-increasing order of
\* traffic, and they are its pages of highest summed traffic.
C5_TopPagesPerDomain ==
    pc = "done" =>
        /\ \A i \in DOMAIN top_pages :
              /\ top_pages[i].Domain \in Domains(top_domains)
              /\ top_pages[i].Page_URL # <<>>
              /\ top_pages[i].Total_Estimated_Traffic
                    = PageTraffic(top_pages[i].Domain, top_pages[i].Page_URL)
              /\ Cardinality({j \in DOMAIN top_pages :
                                top_pages[j].Domain = top_pages[i].Domain}) <= 3
        /\ \A i, j \in DOMAIN top_pages :
              (i < j /\ top_pages[i].Domain = top_pages[j].Domain) =>
                  /\ top_pages[i].Total_Estimated_Traffic >= top_pages[j].Total_Estimated_Traffic
                  /\ top_pages[i].Page_URL # top_pages[j].Page_URL
        /\ \A r \in DOMAIN df :
              (df[r].Ranked_Domain_Name \in Domains(top_domains) /\ df[r].Ranked_Page_URL # <<>>) =>
                  LET kept == {j \in DOMAIN top_pages :
                                  top_pages[j].Domain = df[r].Ranked_Domain_Name}
                  IN  \/ \E j \in kept : top_pages[j].Page_URL = df[r].Ranked_Page_URL
                      \/ /\ Cardinality(kept) = 3
                         /\ \A j \in kept :
                               top_pages[j].Total_Estimated_Traffic >=
                                   PageTraffic(df[r].Ranked_Domain_Name, df[r].Ranked_Page_URL)

\* a domain with a page that was left out for three pages of more traffic, and a
\* domain below the top 20 whose pages are left out altogether
C5_Witness ==
    /\ pc = "done"
    /\ \E r \in DOMAIN df, i \in DOMAIN top_pages :
          /\ df[r].Ranked_Domain_Name = top_pages[i].Domain
          /\ df[r].Ranked_Page_URL # <<>>
          /\ \A j \in DOMAIN top_pages :
                top_pages[j].Domain = top_pages[i].Domain =>
                    /\ top_pages[j].Page_URL # df[r].Ranked_Page_URL
                    /\ top_pages[j].Total_Estimated_Traffic >
                           PageTraffic(df[r].Ranked_Domain_Name, df[r].Ranked_Page_URL)

\* C6: the designated entry "Example.com" selects the row of example.com.
C6_DesignatedIgnoresCase ==
    (/\ pc = "done"
     /\ designated_domains = <<s_Example_com>>
     /\ s_example_com \in Domains(domain_traffic)) =>
        s_example_com \in Domains(designated_domains_traffic)

\* C7: the designated subset is exactly the rows of the full ranked domain list
\* whose Domain is normalize_domain(d) of a designated entry d, each with the Rank
\* and the totals it has in the full list; an empty designated list gives an
\* empty subset.
C7_DesignatedIsSelectionOfFullList ==
    pc = "done" =>
        /\ \A j \in DOMAIN designated_domains_traffic :
              \E i \in DOMAIN domain_traffic :
                 designated_domains_traffic[j] = domain_traffic[i]
        /\ \A i \in DOMAIN domain_traffic :
              (\E j \in DOMAIN designated_domains_traffic :
                  designated_domains_traffic[j].Domain = domain_traffic[i].Domain)
              <=> (\E d \in DOMAIN designated_domains :
                      normalize_domain(designated_domains[d]) = domain_traffic[i].Domain)
        /\ designated_domains = <<>> => designated_domains_traffic = <<>>

\* C8: the Rank column of the full list is 1, 2, .. n for the n distinct
\* normalised domains, Rank i at position i, ties included, and the list is
\* sorted by (traffic descending, volume descending).
C8_RanksAreDense ==
    pc = "done" =>
        /\ Len(domain_traffic) = Cardinality({df[i].Ranked_Domain_Name : i \in DOMAIN df})
        /\ \A i \in DOMAIN domain_traffic : domain_traffic[i].Rank = i
        /\ \A i, j \in DOMAIN domain_traffic :
              domain_traffic[i].Rank < domain_traffic[j].Rank =>
                \/ domain_traffic[i].Total_Estimated_Traffic > domain_traffic[j].Total_Estimated_Traffic
                \/ /\ domain_traffic[i].Total_Estimated_Traffic = domain_traffic[j].Total_Estimated_Traffic
                   /\ domain_traffic[i].Total_Search_Volume.h >= domain_traffic[j].Total_Search_Volume.h

\* more than 20 domains, two of them with the same traffic and the same volume
C8_Witness ==
    /\ pc = "done"
    /\ Len(domain_traffic) > 20
    /\ \E i, j \in DOMAIN domain_traffic :
          /\ i < j
          /\ domain_traffic[i].Total_Estimated_Traffic = domain_traffic[j].Total_Estimated_Traffic
          /\ domain_traffic[i].Total_Search_Volume = domain_traffic[j].Total_Search_Volume

\* the spellings of example.com among the rows of the sheets
ExampleSpellings ==
    {s_example_com, s_www_example_com, s_http_example_com, s_https_www_example_com_page}

\* C9: the full list has one row per distinct normalised domain; rows whose raw
\* domain differs by an http(s):// scheme or a leading www. are summed into one
\* row; the two rows of the scenario give one row (example.com, 559, 1800, Rank 1).
C9_OneRowPerNormalizedDomain ==
    pc = "done" =>
        /\ \A i, j \in DOMAIN domain_traffic :
              domain_traffic[i].Domain = domain_traffic[j].Domain => i = j
        /\ Domains(domain_traffic) = {df[i].Ranked_Domain_Name : i \in DOMAIN df}
        /\ \A k \in DOMAIN domain_traffic :
              domain_traffic[k].Domain = s_example_com =>
                  domain_traffic[k].Total_Search_Volume.h =
                      Sum([i \in DOMAIN df |->
                              IF uploaded_file[df[i].idx + 1].Ranked_Domain_Name.s
                                    \in ExampleSpellings
                              THEN df[i].Search_Volume.h ELSE 0])
        /\ uploaded_file = <<RowA, RowB>> =>
              domain_traffic = <<[Domain |-> s_example_com,
                                  Total_Estimated_Traffic |-> 559,
                                  Total_Search_Volume |-> Number(1800),
                                  Rank |-> 1]>>

C9_Witness ==
    /\ pc = "done"
    /\ uploaded_file = <<RowA, RowB>>
    /\ Len(domain_traffic) = 1

\* rows that the sanitiser removes: rank 0, rank 101, volume 0, a rank or a volume
\* that is no number, a row without any value
RemovedRows ==
    { Row(Str(s_kw1), Number(0), Number(1000), Str(s_example_com), Str(s_a)),
      Row(Str(s_kw2), Number(101), Number(1000), Str(s_other_org), Str(s_b)),
      Row(Str(s_kw1), Number(1), Number(0), Str(s_other_org), Str(s_a)),
      Row(Str(s_kw2), Str(s_abc), Number(1000), Str(s_example_com), Str(s_a)),
      Row(Str(s_kw1), Number(1), Str(s_NA), Str(s_other_org), Str(s_a)),
      Row(NaN, NaN, NaN, NaN, NaN) }

---------------------------------------------------------------------------
(* What remains of C3, C4 and C7 on sheets whose kept volumes are whole numbers *)

WholeVolumes == \A i \in DOMAIN df : df[i].Search_Volume.h % 2 = 0

\* with whole volumes a contributing row has 1 <= rank <= 100 and volume >= 1
WholeVolumes_ContributingRowsAreValid == WholeVolumes => C3_ContributingRowsAreValid

\* with whole volumes the top-20 table is the sorted prefix of the full list
WholeVolumes_TopIsPrefixOfFullList == WholeVolumes => C4_TopIsPrefixOfFullList

\* with whole volumes the designated subset is the selection of the full list
WholeVolumes_DesignatedIsSelectionOfFullList ==
    WholeVolumes => C7_DesignatedIsSelectionOfFullList

\* a designated domain at Rank 21 or below, outside the top-20 table, is selected
WholeVolumes_Witness ==
    /\ pc = "done" /\ WholeVolumes
    /\ \E j \in DOMAIN designated_domains_traffic :
          /\ designated_domains_traffic[j].Rank > 20
          /\ designated_domains_traffic[j].Domain \notin Domains(top_domains)

====
